---- MODULE Spec2Model ----
(***************************************************************************)
(* git-gc: the Bubble Tea program of cmd/git-gc/main.go.                   *)
(*                                                                         *)
(* The program model `m` is the value the Bubble Tea event loop holds.     *)
(* Init and Update have VALUE receivers: what Init assigns to its copy of  *)
(* the model is lost, Update's copy is the one it returns.  A runner is a  *)
(* `git -C dir gc` process wrapped by runGitGC; it is started when the     *)
(* command built by runGitGC is handed back to the runtime in the batch    *)
(* that Init or Update returns.  Directories are identified by their       *)
(* 0-based position in the sorted slice m.directories.                     *)
(***************************************************************************)
EXTENDS Integers, Sequences, FiniteSets

\* ---------------------------------------------------------------- bounds
MaxDirs == 3
MaxConc == 3
MaxDepth == 2
MaxNodes == 3

Dirs == 0 .. (MaxDirs - 1)

\* key strings delivered as tea.KeyMsg; the first three are the cancel keys
Keys == {"ctrl+c", "esc", "q", "a"}
CancelKeys == {"ctrl+c", "esc", "q"}

\* terminal sizes delivered as tea.WindowSizeMsg
WindowSizes == {<<80, 24>>, <<120, 40>>}

VARIABLES
    m,              \* the model held by the event loop
    pc,             \* "new" (constructed), "running" (event loop), "quit"
    running,        \* [Dirs -> Nat]: git gc processes started and not exited
    completedMsgs,  \* [Dirs -> Nat]: dirGitGCCompleted(dir) messages in flight
    quitFnMsgs,     \* number of in-flight messages holding the value tea.Quit
    quitPending,    \* a tea.Quit command was returned, QuitMsg not yet handled
    dispatched,     \* history: directory indices in the order runners started
    finished,       \* history: directories whose completion Update has handled
    failures,       \* history: directories with a runner that exited in error
    cancelled,      \* history: a cancel key has been handled by Update
    lastMsg,        \* history: type of the last message given to Update
    err,            \* newModel returned an error (enumeration failed)
    exitCode,       \* exit status of the process, -1 while it has not exited
    tree,           \* the directory tree below the root given to findDirectories
    walk            \* the result of findDirectories once it has returned

vars == <<m, pc, running, completedMsgs, quitFnMsgs, quitPending,
          dispatched, finished, failures, cancelled, lastMsg, err, exitCode,
          tree, walk>>

Min(a, b) == IF a <= b THEN a ELSE b

\* Elements of a sequence
Range(s) == {s[i] : i \in 1 .. Len(s)}

\* Number of entries of a per-directory counter
RECURSIVE SumOver(_, _)
SumOver(f, S) ==
    IF S = {} THEN 0
    ELSE LET d == CHOOSE x \in S : TRUE IN f[d] + SumOver(f, S \ {d})

\* Add one runner (or message) per element of the sequence ds
RECURSIVE AddAll(_, _)
AddAll(f, ds) ==
    IF ds = <<>> THEN f
    ELSE AddAll([f EXCEPT ![Head(ds)] = @ + 1], Tail(ds))

\* ----------------------------------------------------- findDirectories
\* A directory is the sequence of names leading to it from the root, <<>>
\* being the root itself; tree.git holds the directories that contain .git.
Names == {".h", "a"}

\* strings.HasPrefix(info.Name(), ".")
isHidden(name) == name \in {".h"}

\* byte order of the names: "." sorts before letters
nameRank(name) == IF name = ".h" THEN 1 ELSE 2

EmptyTree(rootName) == [dirs |-> {<<>>}, git |-> {}, rootName |-> rootName]

NoWalk == [done |-> FALSE, dirs |-> <<>>]

\* info.Name() of a visited directory
baseName(t, p) == IF p = <<>> THEN t.rootName ELSE p[Len(p)]

\* The directories filepath.Walk hands to the callback: the callback returns
\* nil for every directory (never filepath.SkipDir), so all of them
walkVisits(t) == t.dirs

\* The callback's condition for dirs.Add(path)
isRepo(t, p) == ~isHidden(baseName(t, p)) /\ p \in t.git

\* slices.Sort on the path strings: a prefix sorts first
RECURSIVE pathLess(_, _)
pathLess(p, q) ==
    IF p = <<>> THEN q # <<>>
    ELSE IF q = <<>> THEN FALSE
    ELSE IF Head(p) = Head(q) THEN pathLess(Tail(p), Tail(q))
    ELSE nameRank(Head(p)) < nameRank(Head(q))

RECURSIVE sortPaths(_)
sortPaths(S) ==
    IF S = {} THEN <<>>
    ELSE LET least == CHOOSE p \in S : \A q \in S \ {p} : pathLess(p, q)
         IN  <<least>> \o sortPaths(S \ {least})

\* findDirectories on a readable tree: walk, collect in the set, sort
walkDirectories(t) == sortPaths({p \in walkVisits(t) : isRepo(t, p)})

\* ------------------------------------------------------------ newModel
\* findDirectories returns a sorted duplicate-free slice; its i-th path is
\* represented by i-1, so the slice of n directories is <<0, .., n-1>>.
findDirectories(n) == [i \in 1 .. n |-> i - 1]

newModel(n, concurrency) ==
    [directories |-> findDirectories(n),
     width       |-> 0,
     height      |-> 0,
     progress    |-> <<0, 1>>,
     done        |-> FALSE,
     concurrency |-> concurrency,
     inFlight    |-> 0,
     nextIndex   |-> 0,
     index       |-> 0]

\* ---------------------------------------------------------- model.Init
\* variant: the concurrency flag is ignored, one runner per directory
toSpawn_NoLimit(mm) == Len(mm.directories)

toSpawn(mm) == Min(mm.concurrency, Len(mm.directories))

\* The runners Init starts: directories[nextIndex], nextIndex++ on the copy
InitCmds(mm) ==
    IF Len(mm.directories) = 0 THEN <<>>
    ELSE [i \in 1 .. toSpawn(mm) |-> mm.directories[mm.nextIndex + i]]

\* variant: the empty-list early return is missing
InitQuits_Never(mm) == FALSE

\* Init returns tea.Sequence(spinnerCmd, tea.Quit) when there is nothing to do
InitQuits(mm) == Len(mm.directories) = 0

\* The model the event loop holds once Init has returned: Init has a value
\* receiver and returns only a command, so its increments are discarded.
InitModel(mm) == mm

\* -------------------------------------------------------- model.Update
\* variant: the final check is index > len(directories)
Completed_LateDone(mm) ==
    LET m1   == [mm EXCEPT !.index = @ + 1, !.inFlight = @ - 1]
        m2   == [m1 EXCEPT !.progress = <<m1.index, Len(m1.directories)>>]
        more == m2.nextIndex < Len(m2.directories)
        nextCmd == IF more THEN <<m2.directories[m2.nextIndex + 1]>> ELSE <<>>
        m3   == IF more
                THEN [m2 EXCEPT !.nextIndex = @ + 1, !.inFlight = @ + 1]
                ELSE m2
    IN  IF m3.index > Len(m3.directories)
        THEN [model |-> [m3 EXCEPT !.done = TRUE], cmds |-> <<>>, quit |-> TRUE]
        ELSE [model |-> m3, cmds |-> nextCmd, quit |-> FALSE]

\* variant: tea.Quit is left out of the final batch
Completed_NoQuit(mm) ==
    LET m1   == [mm EXCEPT !.index = @ + 1, !.inFlight = @ - 1]
        m2   == [m1 EXCEPT !.progress = <<m1.index, Len(m1.directories)>>]
        more == m2.nextIndex < Len(m2.directories)
        nextCmd == IF more THEN <<m2.directories[m2.nextIndex + 1]>> ELSE <<>>
        m3   == IF more
                THEN [m2 EXCEPT !.nextIndex = @ + 1, !.inFlight = @ + 1]
                ELSE m2
    IN  IF m3.index >= Len(m3.directories)
        THEN [model |-> [m3 EXCEPT !.done = TRUE], cmds |-> <<>>, quit |-> FALSE]
        ELSE [model |-> m3, cmds |-> nextCmd, quit |-> FALSE]

\* variant: m.inFlight-- is missing
Completed_NoDecrement(mm) ==
    LET m1   == [mm EXCEPT !.index = @ + 1]
        m2   == [m1 EXCEPT !.progress = <<m1.index, Len(m1.directories)>>]
        more == m2.nextIndex < Len(m2.directories)
        nextCmd == IF more THEN <<m2.directories[m2.nextIndex + 1]>> ELSE <<>>
        m3   == IF more
                THEN [m2 EXCEPT !.nextIndex = @ + 1, !.inFlight = @ + 1]
                ELSE m2
    IN  IF m3.index >= Len(m3.directories)
        THEN [model |-> [m3 EXCEPT !.done = TRUE], cmds |-> <<>>, quit |-> TRUE]
        ELSE [model |-> m3, cmds |-> nextCmd, quit |-> FALSE]

\* variant: the final batch also carries nextCmd
Completed_KeepsNextCmd(mm) ==
    LET m1   == [mm EXCEPT !.index = @ + 1, !.inFlight = @ - 1]
        m2   == [m1 EXCEPT !.progress = <<m1.index, Len(m1.directories)>>]
        more == m2.nextIndex < Len(m2.directories)
        nextCmd == IF more THEN <<m2.directories[m2.nextIndex + 1]>> ELSE <<>>
        m3   == IF more
                THEN [m2 EXCEPT !.nextIndex = @ + 1, !.inFlight = @ + 1]
                ELSE m2
    IN  IF m3.index >= Len(m3.directories)
        THEN [model |-> [m3 EXCEPT !.done = TRUE], cmds |-> nextCmd, quit |-> TRUE]
        ELSE [model |-> m3, cmds |-> nextCmd, quit |-> FALSE]

\* case dirGitGCCompleted
Completed(mm) ==
    LET m1   == [mm EXCEPT !.index = @ + 1, !.inFlight = @ - 1]
        m2   == [m1 EXCEPT !.progress = <<m1.index, Len(m1.directories)>>]
        more == m2.nextIndex < Len(m2.directories)
        nextCmd == IF more THEN <<m2.directories[m2.nextIndex + 1]>> ELSE <<>>
        m3   == IF more
                THEN [m2 EXCEPT !.nextIndex = @ + 1, !.inFlight = @ + 1]
                ELSE m2
    IN  IF m3.index >= Len(m3.directories)
        THEN [model |-> [m3 EXCEPT !.done = TRUE], cmds |-> <<>>, quit |-> TRUE]
        ELSE [model |-> m3, cmds |-> nextCmd, quit |-> FALSE]

\* case tea.KeyMsg
KeyQuits(k) == k \in CancelKeys

\* variant: the height is assigned to the completed counter
Resized_IntoIndex(mm, size) == [mm EXCEPT !.width = size[1], !.index = size[2]]

\* case tea.WindowSizeMsg
Resized(mm, size) == [mm EXCEPT !.width = size[1], !.height = size[2]]

\* ---------------------------------------------------------- model.View
View(mm) ==
    IF mm.done
    THEN <<"Done", Len(mm.directories)>>
    ELSE <<"Cleaning", mm.index, Len(mm.directories)>>

\* ---------------------------------------------------------------- main
\* variant: the os.Exit(1) calls are missing
exitStatus_AlwaysZero(newModelErr, runErr) == 0

\* Exit status of main: os.Exit(1) after an error of newModel or of
\* Program.Run, otherwise main returns
exitStatus(newModelErr, runErr) == IF newModelErr \/ runErr THEN 1 ELSE 0

\* ------------------------------------------------------------- actions
TypeOK ==
    /\ pc \in {"enum", "new", "running", "quit", "exit"}
    /\ running \in [Dirs -> Nat]
    /\ completedMsgs \in [Dirs -> Nat]
    /\ quitFnMsgs \in Nat
    /\ quitPending \in BOOLEAN
    /\ finished \subseteq Dirs
    /\ failures \subseteq Dirs
    /\ cancelled \in BOOLEAN
    /\ err \in BOOLEAN
    /\ exitCode \in {-1, 0, 1}
    /\ m.index \in Nat /\ m.nextIndex \in Nat /\ m.inFlight \in Int

Init ==
    /\ \E n \in 0 .. MaxDirs, c \in 1 .. MaxConc : m = newModel(n, c)
    /\ pc = "new"
    /\ running = [d \in Dirs |-> 0]
    /\ completedMsgs = [d \in Dirs |-> 0]
    /\ quitFnMsgs = 0
    /\ quitPending = FALSE
    /\ dispatched = <<>>
    /\ finished = {}
    /\ failures = {}
    /\ cancelled = FALSE
    /\ lastMsg = "none"
    /\ err = FALSE
    /\ exitCode = -1
    /\ tree = EmptyTree("a")
    /\ walk = NoWalk

\* findDirectories failed: newModel returns model{} and the error
InitFailed ==
    /\ m = newModel(0, 0)
    /\ pc = "new"
    /\ running = [d \in Dirs |-> 0]
    /\ completedMsgs = [d \in Dirs |-> 0]
    /\ quitFnMsgs = 0
    /\ quitPending = FALSE
    /\ dispatched = <<>>
    /\ finished = {}
    /\ failures = {}
    /\ cancelled = FALSE
    /\ lastMsg = "none"
    /\ err = TRUE
    /\ exitCode = -1
    /\ tree = EmptyTree("a")
    /\ walk = NoWalk

\* main: "Error creating new model", os.Exit(1)
ExitOnError ==
    /\ pc = "new"
    /\ err
    /\ pc' = "exit"
    /\ exitCode' = exitStatus(err, FALSE)
    /\ UNCHANGED <<m, running, completedMsgs, quitFnMsgs, quitPending,
                   dispatched, finished, failures, cancelled, lastMsg, err,
                   tree, walk>>

\* tea.NewProgram(m).Run() calls m.Init() and runs the command it returns
InitStep ==
    /\ pc = "new"
    /\ ~err
    /\ pc' = "running"
    /\ m' = InitModel(m)
    /\ running' = AddAll(running, InitCmds(m))
    /\ dispatched' = dispatched \o InitCmds(m)
    /\ quitPending' = InitQuits(m)
    /\ UNCHANGED <<tree, walk, err, exitCode, completedMsgs, quitFnMsgs, finished, failures, cancelled, lastMsg>>

\* runGitGC callback, exitErr == nil: the message is dirGitGCCompleted(dir)
RunnerSucceeds(d) ==
    /\ pc = "running"
    /\ running[d] > 0
    /\ running' = [running EXCEPT ![d] = @ - 1]
    /\ completedMsgs' = [completedMsgs EXCEPT ![d] = @ + 1]
    /\ UNCHANGED <<tree, walk, err, exitCode, m, pc, quitFnMsgs, quitPending, dispatched, finished,
                   failures, cancelled, lastMsg>>

\* runGitGC callback, exitErr != nil: the message is the function value
\* tea.Quit itself (it is returned, not called)
RunnerFails(d) ==
    /\ pc = "running"
    /\ running[d] > 0
    /\ running' = [running EXCEPT ![d] = @ - 1]
    /\ quitFnMsgs' = quitFnMsgs + 1
    /\ failures' = failures \cup {d}
    /\ UNCHANGED <<tree, walk, err, exitCode, m, pc, completedMsgs, quitPending, dispatched, finished,
                   cancelled, lastMsg>>

\* Update(dirGitGCCompleted(d))
UpdateCompleted(d) ==
    /\ pc = "running"
    /\ completedMsgs[d] > 0
    /\ LET r == Completed(m) IN
        /\ m' = r.model
        /\ running' = AddAll(running, r.cmds)
        /\ dispatched' = dispatched \o r.cmds
        /\ quitPending' = (quitPending \/ r.quit)
    /\ completedMsgs' = [completedMsgs EXCEPT ![d] = @ - 1]
    /\ finished' = finished \cup {d}
    /\ lastMsg' = "dirGitGCCompleted"
    /\ UNCHANGED <<tree, walk, err, exitCode, pc, quitFnMsgs, failures, cancelled>>

\* Update(msg) for the message a failed runner produced: a func() tea.Msg
\* value matches no case of the type switch, Update returns m, nil
UpdateQuitFn ==
    /\ pc = "running"
    /\ quitFnMsgs > 0
    /\ quitFnMsgs' = quitFnMsgs - 1
    /\ lastMsg' = "func"
    /\ UNCHANGED <<tree, walk, err, exitCode, m, pc, running, completedMsgs, quitPending, dispatched,
                   finished, failures, cancelled>>

\* Update(tea.KeyMsg)
UpdateKey(k) ==
    /\ pc = "running"
    /\ quitPending' = (quitPending \/ KeyQuits(k))
    /\ cancelled' = (cancelled \/ KeyQuits(k))
    /\ lastMsg' = "KeyMsg"
    /\ UNCHANGED <<tree, walk, err, exitCode, m, pc, running, completedMsgs, quitFnMsgs, dispatched,
                   finished, failures>>

\* Update(tea.WindowSizeMsg)
UpdateWindowSize(size) ==
    /\ pc = "running"
    /\ m' = Resized(m, size)
    /\ lastMsg' = "WindowSizeMsg"
    /\ UNCHANGED <<tree, walk, err, exitCode, pc, running, completedMsgs, quitFnMsgs, quitPending,
                   dispatched, finished, failures, cancelled>>

\* Update(spinner.TickMsg): only the spinner widget changes
UpdateSpinnerTick ==
    /\ pc = "running"
    /\ lastMsg' = "spinner.TickMsg"
    /\ UNCHANGED <<tree, walk, err, exitCode, m, pc, running, completedMsgs, quitFnMsgs, quitPending,
                   dispatched, finished, failures, cancelled>>

\* Update(progress.FrameMsg): only the progress widget's animation changes
UpdateProgressFrame ==
    /\ pc = "running"
    /\ lastMsg' = "progress.FrameMsg"
    /\ UNCHANGED <<tree, walk, err, exitCode, m, pc, running, completedMsgs, quitFnMsgs, quitPending,
                   dispatched, finished, failures, cancelled>>

\* The QuitMsg produced by a returned tea.Quit ends Program.Run
QuitStep ==
    /\ pc = "running"
    /\ quitPending
    /\ pc' = "quit"
    /\ lastMsg' = "QuitMsg"
    /\ exitCode' = exitStatus(err, FALSE)
    /\ UNCHANGED <<tree, walk, err, m, running, completedMsgs, quitFnMsgs, quitPending,
                   dispatched, finished, failures, cancelled>>

Next ==
    \/ InitStep
    \/ \E d \in Dirs : RunnerSucceeds(d)
    \/ \E d \in Dirs : RunnerFails(d)
    \/ \E d \in Dirs : UpdateCompleted(d)
    \/ UpdateQuitFn
    \/ \E k \in Keys : UpdateKey(k)
    \/ \E size \in WindowSizes : UpdateWindowSize(size)
    \/ UpdateSpinnerTick
    \/ UpdateProgressFrame
    \/ QuitStep

Spec == Init /\ [][Next]_vars

\* Runs without operator cancellation in which every runner exits with
\* status zero; every enabled step of the runtime is eventually taken.
NextUncancelled ==
    \/ InitStep
    \/ \E d \in Dirs : RunnerSucceeds(d)
    \/ \E d \in Dirs : UpdateCompleted(d)
    \/ \E size \in WindowSizes : UpdateWindowSize(size)
    \/ UpdateSpinnerTick
    \/ UpdateProgressFrame
    \/ QuitStep

FairSpec ==
    /\ Init
    /\ [][NextUncancelled]_vars
    /\ WF_vars(InitStep)
    /\ WF_vars(\E d \in Dirs : RunnerSucceeds(d))
    /\ WF_vars(\E d \in Dirs : UpdateCompleted(d))
    /\ WF_vars(QuitStep)

\* The file system findDirectories is run on: any tree of at most MaxNodes
\* directories below the root and of depth at most MaxDepth
WalkInit ==
    /\ \E rn \in Names : tree = EmptyTree(rn)
    /\ walk = NoWalk
    /\ m = newModel(0, 0)
    /\ pc = "enum"
    /\ running = [d \in Dirs |-> 0]
    /\ completedMsgs = [d \in Dirs |-> 0]
    /\ quitFnMsgs = 0
    /\ quitPending = FALSE
    /\ dispatched = <<>>
    /\ finished = {}
    /\ failures = {}
    /\ cancelled = FALSE
    /\ lastMsg = "none"
    /\ err = FALSE
    /\ exitCode = -1

\* a directory exists below an existing one
Mkdir(p, name) ==
    /\ pc = "enum"
    /\ ~walk.done
    /\ p \in tree.dirs
    /\ Len(p) < MaxDepth
    /\ Cardinality(tree.dirs) <= MaxNodes
    /\ Append(p, name) \notin tree.dirs
    /\ tree' = [tree EXCEPT !.dirs = @ \cup {Append(p, name)}]
    /\ UNCHANGED <<m, pc, running, completedMsgs, quitFnMsgs, quitPending,
                   dispatched, finished, failures, cancelled, lastMsg, err,
                   exitCode, walk>>

\* a directory contains .git
GitInit(p) ==
    /\ pc = "enum"
    /\ ~walk.done
    /\ p \in tree.dirs \ tree.git
    /\ tree' = [tree EXCEPT !.git = @ \cup {p}]
    /\ UNCHANGED <<m, pc, running, completedMsgs, quitFnMsgs, quitPending,
                   dispatched, finished, failures, cancelled, lastMsg, err,
                   exitCode, walk>>

\* findDirectories(rootDir) returns
FindDirectoriesCall ==
    /\ pc = "enum"
    /\ ~walk.done
    /\ walk' = [done |-> TRUE, dirs |-> walkDirectories(tree)]
    /\ UNCHANGED <<m, pc, running, completedMsgs, quitFnMsgs, quitPending,
                   dispatched, finished, failures, cancelled, lastMsg, err,
                   exitCode, tree>>

NextWalk ==
    \/ \E p \in tree.dirs, name \in Names : Mkdir(p, name)
    \/ \E p \in tree.dirs : GitInit(p)
    \/ FindDirectoriesCall

WalkSpec == WalkInit /\ [][NextWalk]_vars

\* The whole of main: enumeration may fail before any scheduling
NextMain ==
    \/ ExitOnError
    \/ Next

MainSpec == (Init \/ InitFailed) /\ [][NextMain]_vars

\* ------------------------------------------------------------ shorthand
total == Len(m.directories)
Outstanding == SumOver(running, Dirs)

\* -------------------------------------------------------------- claims

\* C1: no directory has a runner started for it more than once, and the
\* number of runners started by Init and all Updates never exceeds total.
C1_DispatchedAtMostOnce ==
    /\ Len(dispatched) <= total
    /\ \A i, j \in 1 .. Len(dispatched) : i # j => dispatched[i] # dispatched[j]

\* C2: done is true only when every enumerated directory has had its runner
\* started and its completion handled.
C2_DoneOnlyAfterAllProcessed ==
    m.done => \A d \in 0 .. (total - 1) : d \in Range(dispatched) /\ d \in finished

\* C3: the message of a runner that exited in error is counted by Update
\* like a success: completed (index) is incremented when it is handled.
C3_FailureCounted ==
    [][UpdateQuitFn => m'.index = m.index + 1]_vars

\* C4: the number of git gc processes started and not yet exited never
\* exceeds concurrency, nor total.
C4_BoundedRunners ==
    Outstanding <= Min(m.concurrency, total)

\* C4 witness: a completion has been handled, Update has started a
\* replacement, and the pool is full again with fewer slots than directories.
C4_Witness ==
    /\ m.concurrency < total
    /\ lastMsg = "dirGitGCCompleted"
    /\ Len(dispatched) > m.concurrency
    /\ Outstanding = m.concurrency

\* C5: in every state of the model held by the event loop,
\* 0 <= inFlight <= min(concurrency, total).
C5_InFlightRange ==
    /\ 0 <= m.inFlight
    /\ m.inFlight <= Min(m.concurrency, total)

\* C6: in an uncancelled run where every runner succeeds, every directory
\* has had its runner started by the time the program has quit.
C6_AllDispatchedBeforeQuit ==
    pc = "quit" => \A d \in 0 .. (total - 1) : d \in Range(dispatched)

\* C7: runners are started in enumeration order, so the sequence of
\* dispatched directory indices is strictly increasing.
C7_DispatchOrderIncreasing ==
    \A i \in 1 .. (Len(dispatched) - 1) : dispatched[i] < dispatched[i + 1]

\* C8 (as stated): done is true if and only if completed == total.
C8_DoneIffCompletedIsTotal ==
    m.done <=> (m.index = total)

\* C8 (amended): done is true if and only if total > 0 and completed >= total.
C8_DoneIffCompletedReachedTotal ==
    m.done <=> (total > 0 /\ m.index >= total)

\* C8 witness: the completion that brings completed up to total was handled.
C8_Witness ==
    /\ m.done
    /\ m.index = total
    /\ lastMsg = "dirGitGCCompleted"

\* C9 (as stated): with total == 0, once Init has run no runner was started,
\* done is true and the view shown is the completed summary.
C9_EmptyGoesDone ==
    (total = 0 /\ pc # "new") =>
        /\ dispatched = <<>>
        /\ m.done
        /\ View(m)[1] = "Done"

\* C9 (amended): with total == 0, once Init has run no runner was started and
\* a quit is under way or has happened; done stays false, the progress bar is
\* never advanced and the view is the in-progress one, 0/0.
C9_EmptyJustQuits ==
    (total = 0 /\ pc # "new") =>
        /\ dispatched = <<>>
        /\ Outstanding = 0
        /\ quitPending
        /\ ~m.done
        /\ m.progress = <<0, 1>>
        /\ View(m) = <<"Cleaning", 0, 0>>

\* C9 witness: the program has quit on an empty directory list.
C9_Witness ==
    total = 0 /\ pc = "quit"

\* C10 (as stated): without cancellation and with every runner succeeding,
\* the program eventually is in Done and has quit.
C10_EventuallyDoneAndQuit ==
    <>(m.done /\ pc = "quit")

\* C10 (amended): without cancellation and with every runner succeeding, the
\* program eventually quits, and with done set whenever total >= 1.
C10_EventuallyQuits ==
    <>(pc = "quit" /\ (total > 0 => m.done))

\* C10 witness: a run over several directories has set done and quit.
C10_Witness ==
    /\ pc = "quit"
    /\ m.done
    /\ total >= 2
    /\ Outstanding = 0

\* C11: in an uncancelled run where every runner succeeds, whatever the order
\* of the completions the run ends in the same scheduler state: done, with
\* completed == total.
C11_SameTerminalState ==
    (pc = "quit" /\ total > 0) => (m.done /\ m.index = total)

\* C12: once a cancel key has been handled by Update, no runner is started.
C12_NoDispatchAfterCancel ==
    [][cancelled => dispatched' = dispatched]_vars

\* C15: once Init has run, inFlight equals the number of runners started
\* whose completion has not yet been delivered to Update.
C15_InFlightIsOutstanding ==
    pc # "new" =>
        m.inFlight = Outstanding + SumOver(completedMsgs, Dirs) + quitFnMsgs

\* C16: nextIndex == min(number of runners started so far, total).
C16_NextIndexIsDispatchCount ==
    m.nextIndex = Min(Len(dispatched), total)

\* C17: completed <= total, so the fraction passed to the progress bar is
\* within [0,1].
C17_CompletedAtMostTotal ==
    /\ m.index <= total
    /\ m.progress[1] <= m.progress[2]

\* C18: until done, inFlight == nextIndex - completed.
C18_CounterBalance ==
    ~m.done => m.inFlight = m.nextIndex - m.index

\* C18 witness: some completions were handled and the run is not done.
C18_Witness ==
    /\ ~m.done
    /\ m.index >= 2
    /\ Outstanding > 0
    /\ lastMsg = "dirGitGCCompleted"

\* C19: the Update step that sets done starts no runner, and no step taken
\* with done set starts one.
C19_DoneIsTerminal ==
    [][m'.done => dispatched' = dispatched]_vars

\* C19 witness: a completion was handled after done had been set.
C19_Witness ==
    /\ m.done
    /\ m.index > total
    /\ lastMsg = "dirGitGCCompleted"

\* C20: window-size, spinner-tick, progress-frame, quit and unrecognised
\* messages leave nextIndex, inFlight, completed and done unchanged and start
\* no runner.
C20_OtherMessagesKeepScheduler ==
    [][(\/ \E size \in WindowSizes : UpdateWindowSize(size)
        \/ UpdateSpinnerTick
        \/ UpdateProgressFrame
        \/ UpdateQuitFn
        \/ UpdateKey("a")
        \/ QuitStep)
       => /\ m'.nextIndex = m.nextIndex
          /\ m'.inFlight = m.inFlight
          /\ m'.index = m.index
          /\ m'.done = m.done
          /\ dispatched' = dispatched
          /\ running' = running]_vars

\* C20 witness: a window-size message was handled in the middle of a run.
C20_Witness ==
    /\ lastMsg = "WindowSizeMsg"
    /\ m.width = 120
    /\ m.index > 0
    /\ ~m.done
    /\ Outstanding > 0

\* C14 (as stated): the exit status is 0 on normal completion, and non-zero
\* both when enumeration failed (no runner was started) and when the operator
\* aborted the run with a cancel key.
C14_ExitNonZeroOnAbort ==
    exitCode # -1 =>
        IF err THEN exitCode # 0 /\ dispatched = <<>>
        ELSE IF cancelled /\ ~m.done /\ total > 0 THEN exitCode # 0
        ELSE exitCode = 0

\* C14 (amended): the exit status is 0 on normal completion and also when the
\* operator aborted the run with a cancel key; it is non-zero when enumeration
\* failed, and then no runner was started.
C14_ExitStatus ==
    exitCode # -1 =>
        IF err THEN exitCode # 0 /\ dispatched = <<>> /\ Outstanding = 0
        ELSE exitCode = 0

\* C14 witness: the program has exited after a cancel key, with work left.
C14_Witness ==
    /\ exitCode = 0
    /\ cancelled
    /\ ~m.done
    /\ m.index < total
    /\ Len(dispatched) > 0

\* C13: a repository located anywhere beneath a directory whose name starts
\* with '.' is never in the list findDirectories returns.
C13_HiddenSubtreesPruned ==
    walk.done =>
        \A i \in 1 .. Len(walk.dirs) :
            LET p == walk.dirs[i] IN
            \A k \in 1 .. (Len(p) - 1) : ~isHidden(p[k])

====
